---- MODULE Spec2Model ----
(***************************************************************************)
(* The streaming event parser of src/client/utils/api.ts                   *)
(* (class FrontendStreamParser, parseCompleteLog) together with the log    *)
(* writer that produces its input (appendToolStreamLog).                   *)
(*                                                                         *)
(* Text.  A JavaScript string is a sequence of lexemes.  A lexeme is one   *)
(* character ("{", ":", "n", "0", ...; the characters that have no TLA+    *)
(* spelling are named: "quote", "bslash", "lf", "sp", "tab", "cr") or one  *)
(* word of letters that the code only ever treats as a whole               *)
(* ("content_block_delta", "query", "Hello").  Inputs never put a word     *)
(* right after a backslash, so that an escape sequence is always spelled   *)
(* with one-character lexemes.                                             *)
(*                                                                         *)
(* Values.  A JavaScript value is a record [t, n, s, o]: t is the type     *)
(* tag, n the number (or 1/0 for a boolean), s the characters of a string, *)
(* o the <<key, value>> pairs of an object in insertion order (the items   *)
(* of an array, with empty keys).                                          *)
(***************************************************************************)
EXTENDS Integers, Sequences, FiniteSets, TLC

\* ------------------------------------------------------------------ bounds

\* Records per log in the chunked specification.
MaxRecords == 2
\* Lexemes per chunk in the chunked specification (besides "all the rest").
MaxChunk == 2
\* Events delivered in the event-level specification.
MaxEvents == 6
\* Records delivered, resets and reads in the third specification.
MaxSteps == 4
\* Pieces of the text that the fourth specification unescapes.
MaxText == 4
\* Snapshots that the listener of the fifth specification receives.
MaxSnapshots == 3

\* ----------------------------------------------------------------- lexemes

QUOTE == "quote"
BSLASH == "bslash"
LF == "lf"
SP == "sp"
TAB == "tab"
CR == "cr"

\* String.prototype.trim and the regex class \s.
WhiteSpace == {SP, TAB, CR, LF}
\* Characters JSON.parse refuses unescaped inside a string literal.
ControlChars == {LF, TAB, CR}
Digits == {"0", "1", "2", "3", "4", "5", "6", "7", "8", "9"}

DigitVal(d) ==
  CASE d = "0" -> 0 [] d = "1" -> 1 [] d = "2" -> 2 [] d = "3" -> 3
    [] d = "4" -> 4 [] d = "5" -> 5 [] d = "6" -> 6 [] d = "7" -> 7
    [] d = "8" -> 8 [] OTHER -> 9

DigitOf(n) ==
  CASE n = 0 -> "0" [] n = 1 -> "1" [] n = 2 -> "2" [] n = 3 -> "3"
    [] n = 4 -> "4" [] n = 5 -> "5" [] n = 6 -> "6" [] n = 7 -> "7"
    [] n = 8 -> "8" [] OTHER -> "9"

\* ------------------------------------------------------- sequence helpers

\* The concatenation of the sequences of ss, by halves.
RECURSIVE Flatten(_)
Flatten(ss) ==
  IF ss = <<>> THEN <<>>
  ELSE IF Len(ss) = 1 THEN ss[1]
  ELSE Flatten(SubSeq(ss, 1, Len(ss) \div 2))
         \o Flatten(SubSeq(ss, Len(ss) \div 2 + 1, Len(ss)))

Last(s) == s[Len(s)]

Front(s) == SubSeq(s, 1, Len(s) - 1)

IsPrefix(a, b) == Len(a) <= Len(b) /\ SubSeq(b, 1, Len(a)) = a

\* pat occurs in s at position i.
MatchAt(s, i, pat) ==
  /\ i >= 1
  /\ i + Len(pat) - 1 <= Len(s)
  /\ SubSeq(s, i, i + Len(pat) - 1) = pat

\* String.prototype.includes
Includes(s, pat) == \E i \in 1..Len(s) : MatchAt(s, i, pat)

StartsWith(s, pat) == MatchAt(s, 1, pat)

EndsWith(s, pat) == MatchAt(s, Len(s) - Len(pat) + 1, pat)

\* String.prototype.replace(/pat/g, rep) for a literal pattern: leftmost
\* matches, left to right, not overlapping, the replacement never rescanned.
RECURSIVE ReplaceAll(_, _, _)
ReplaceAll(s, pat, rep) ==
  LET ms == {i \in 1..Len(s) : MatchAt(s, i, pat)}
      m == CHOOSE i \in ms : \A k \in ms : i <= k
  IN IF ms = {} THEN s
     ELSE SubSeq(s, 1, m - 1) \o rep
            \o ReplaceAll(SubSeq(s, m + Len(pat), Len(s)), pat, rep)

\* String.prototype.trim
Trim(s) ==
  LET keep == {i \in 1..Len(s) : s[i] \notin WhiteSpace}
  IN IF keep = {} THEN <<>>
     ELSE SubSeq(s, CHOOSE i \in keep : \A j \in keep : i <= j,
                    CHOOSE i \in keep : \A j \in keep : i >= j)

\* String.prototype.split('\n'): one piece more than there are newlines.
RECURSIVE SplitLines(_)
SplitLines(s) ==
  LET nl == {i \in 1..Len(s) : s[i] = LF}
  IN IF nl = {} THEN <<s>>
     ELSE LET i == CHOOSE k \in nl : \A j \in nl : k <= j
          IN <<SubSeq(s, 1, i - 1)>> \o SplitLines(SubSeq(s, i + 1, Len(s)))

\* -------------------------------------------------------- JavaScript values

Undef == [t |-> "undef", n |-> 0, s |-> <<>>, o |-> <<>>]
Null == [t |-> "null", n |-> 0, s |-> <<>>, o |-> <<>>]
Num(k) == [t |-> "num", n |-> k, s |-> <<>>, o |-> <<>>]
Bool(b) == [t |-> "bool", n |-> IF b THEN 1 ELSE 0, s |-> <<>>, o |-> <<>>]
Str(cs) == [t |-> "str", n |-> 0, s |-> cs, o |-> <<>>]
Obj(pairs) == [t |-> "obj", n |-> 0, s |-> <<>>, o |-> pairs]
Arr(items) == [t |-> "arr", n |-> 0, s |-> <<>>, o |-> [i \in 1..Len(items) |-> <<<<>>, items[i]>>]]

\* A one-word string, and a one-word key.
W(word) == Str(<<word>>)

\* ToBoolean: what `if (v)`, `v || w` and `v && w` test.
Truthy(v) ==
  CASE v.t = "undef" -> FALSE
    [] v.t = "null" -> FALSE
    [] v.t = "bool" -> v.n = 1
    [] v.t = "num" -> v.n # 0
    [] v.t = "str" -> v.s # <<>>
    [] OTHER -> TRUE

\* v.key throws a TypeError exactly when v is null or undefined.
Throws(v) == v.t \in {"undef", "null"}

\* v.key for a v it does not throw on: the last pair of that key of an
\* object, undefined on every other value.
Get(v, key) ==
  LET hits == IF v.t = "obj" THEN {i \in 1..Len(v.o) : v.o[i][1] = <<key>>} ELSE {}
  IN IF hits = {} THEN Undef
     ELSE v.o[CHOOSE i \in hits : \A j \in hits : i >= j][2]

\* -------------------------------------------------------------- JSON.parse

JsonWs == {SP, TAB, CR, LF}

ParseFail == [ok |-> FALSE, v |-> Undef, i |-> 0]

ParseOk(v, i) == [ok |-> TRUE, v |-> v, i |-> i]

\* The first position from i on that holds no JSON whitespace.
SkipWs(s, i) ==
  LET js == {j \in i..Len(s) : s[j] \notin JsonWs}
  IN IF js = {} THEN Len(s) + 1 ELSE CHOOSE j \in js : \A k \in js : j <= k

IsSimpleEscape(c) == c \in {QUOTE, BSLASH, "/", "n", "t", "r", "b", "f"}

EscapeChar(c) ==
  CASE c = "n" -> LF [] c = "t" -> TAB [] c = "r" -> CR
    [] c = "b" -> "bs" [] c = "f" -> "ff" [] OTHER -> c

HexDigits == Digits \cup {"a", "b", "c", "d", "e", "f", "A", "B", "C", "D", "E", "F"}

\* String.fromCharCode(parseInt(hex, 16)) on the code points the inputs use;
\* any other code point is a character of its own.
CodeChar(h) ==
  CASE h = <<"0", "0", "5", "c">> -> BSLASH
    [] h = <<"0", "0", "2", "2">> -> QUOTE
    [] h = <<"0", "0", "0", "a">> -> LF
    [] h = <<"0", "0", "6", "e">> -> "n"
    [] OTHER -> "uchar"

\* The end of the run of plain characters of a string literal from j on: the
\* first position after j that holds a quote, a backslash or a control
\* character, or the end of the text.
PlainEnd(s, j) ==
  CHOOSE k \in (j + 1)..(Len(s) + 1) :
    /\ k = Len(s) + 1 \/ s[k] \in {QUOTE, BSLASH} \cup ControlChars
    /\ \A n \in (j + 1)..(k - 1) : s[n] \notin {QUOTE, BSLASH} \cup ControlChars

\* A string literal from the character after its opening quote.
RECURSIVE ScanString(_, _, _)
ScanString(s, j, acc) ==
  IF j > Len(s) THEN ParseFail
  ELSE IF s[j] = QUOTE THEN ParseOk(Str(acc), j + 1)
  ELSE IF s[j] = BSLASH
       THEN IF j + 1 > Len(s) THEN ParseFail
            ELSE IF IsSimpleEscape(s[j + 1])
                 THEN ScanString(s, j + 2, Append(acc, EscapeChar(s[j + 1])))
            ELSE IF /\ s[j + 1] = "u"
                    /\ j + 5 <= Len(s)
                    /\ \A k \in (j + 2)..(j + 5) : s[k] \in HexDigits
                 THEN ScanString(s, j + 6, Append(acc, CodeChar(SubSeq(s, j + 2, j + 5))))
            ELSE ParseFail
  ELSE IF s[j] \in ControlChars THEN ParseFail
  ELSE ScanString(s, PlainEnd(s, j), acc \o SubSeq(s, j, PlainEnd(s, j) - 1))

RECURSIVE DecimalValue(_)
DecimalValue(ds) ==
  IF ds = <<>> THEN 0 ELSE 10 * DecimalValue(Front(ds)) + DigitVal(Last(ds))

\* A number: a run of digits without a leading zero (the inputs use no
\* sign, fraction or exponent).
ScanNumber(s, i) ==
  LET stop == {j \in i..Len(s) : s[j] \notin Digits}
      e == IF stop = {} THEN Len(s) + 1 ELSE CHOOSE j \in stop : \A k \in stop : j <= k
  IN IF s[i] = "0" /\ e > i + 1 THEN ParseFail
     ELSE ParseOk(Num(DecimalValue(SubSeq(s, i, e - 1))), e)

RECURSIVE ParseValue(_, _)
RECURSIVE ParseMembers(_, _, _)
RECURSIVE ParseItems(_, _, _)

\* After a member's value: "}" ends the object, "," announces another member.
MemberSep(s, d, acc) ==
  IF d > Len(s) THEN ParseFail
  ELSE IF s[d] = "}" THEN ParseOk(Obj(acc), d + 1)
  ELSE IF s[d] = "," THEN ParseMembers(s, SkipWs(s, d + 1), acc)
  ELSE ParseFail

\* The member of key k and value v (a parse result) joins the members acc.
MemberValue(s, k, v, acc) ==
  IF ~v.ok THEN ParseFail
  ELSE MemberSep(s, SkipWs(s, v.i), Append(acc, <<k.v.s, v.v>>))

\* After the key k, at position c: the colon, then the value.
MemberColon(s, k, c, acc) ==
  IF c > Len(s) \/ s[c] # ":" THEN ParseFail
  ELSE MemberValue(s, k, ParseValue(s, SkipWs(s, c + 1)), acc)

\* The key k (a parse result) of a member.
MemberKey(s, k, acc) ==
  IF ~k.ok THEN ParseFail ELSE MemberColon(s, k, SkipWs(s, k.i), acc)

\* The members of an object from position i, which holds a key.
ParseMembers(s, i, acc) ==
  IF i > Len(s) \/ s[i] # QUOTE THEN ParseFail
  ELSE MemberKey(s, ScanString(s, i + 1, <<>>), acc)

\* After an item: "]" ends the array, "," announces another item.
ItemSep(s, d, acc) ==
  IF d > Len(s) THEN ParseFail
  ELSE IF s[d] = "]" THEN ParseOk(Arr(acc), d + 1)
  ELSE IF s[d] = "," THEN ParseItems(s, SkipWs(s, d + 1), acc)
  ELSE ParseFail

\* The item v (a parse result) joins the items acc.
ItemValue(s, v, acc) ==
  IF ~v.ok THEN ParseFail ELSE ItemSep(s, SkipWs(s, v.i), Append(acc, v.v))

\* The items of an array from position i, which holds a value.
ParseItems(s, i, acc) == ItemValue(s, ParseValue(s, i), acc)

\* One JSON value from position i, which holds no whitespace.
ParseValue(s, i) ==
  IF i > Len(s) THEN ParseFail
  ELSE IF s[i] = "{"
       THEN LET j == SkipWs(s, i + 1)
            IN IF j <= Len(s) /\ s[j] = "}" THEN ParseOk(Obj(<<>>), j + 1)
               ELSE ParseMembers(s, j, <<>>)
  ELSE IF s[i] = "["
       THEN LET j == SkipWs(s, i + 1)
            IN IF j <= Len(s) /\ s[j] = "]" THEN ParseOk(Arr(<<>>), j + 1)
               ELSE ParseItems(s, j, <<>>)
  ELSE IF s[i] = QUOTE THEN ScanString(s, i + 1, <<>>)
  ELSE IF s[i] \in Digits THEN ScanNumber(s, i)
  ELSE IF s[i] = "null" THEN ParseOk(Null, i + 1)
  ELSE IF s[i] = "true" THEN ParseOk(Bool(TRUE), i + 1)
  ELSE IF s[i] = "false" THEN ParseOk(Bool(FALSE), i + 1)
  ELSE ParseFail

\* The value r (a parse result) must be followed by whitespace only.
ParseEnd(s, r) ==
  IF r.ok /\ SkipWs(s, r.i) = Len(s) + 1
  THEN [ok |-> TRUE, v |-> r.v]
  ELSE [ok |-> FALSE, v |-> Undef]

\* JSON.parse(s): [ok |-> FALSE] stands for the SyntaxError it throws.
JSONParse(s) == ParseEnd(s, ParseValue(s, SkipWs(s, 1)))

\* ---------------------------------------------------------- JSON.stringify

\* The characters of a string inside its quotes, as JSON.stringify writes them.
QuoteChars(cs) ==
  Flatten([i \in 1..Len(cs) |->
             CASE cs[i] = QUOTE -> <<BSLASH, QUOTE>>
               [] cs[i] = BSLASH -> <<BSLASH, BSLASH>>
               [] cs[i] = LF -> <<BSLASH, "n">>
               [] cs[i] = TAB -> <<BSLASH, "t">>
               [] cs[i] = CR -> <<BSLASH, "r">>
               [] OTHER -> <<cs[i]>>])

RECURSIVE DecimalDigits(_)
DecimalDigits(n) ==
  IF n < 10 THEN <<DigitOf(n)>> ELSE Append(DecimalDigits(n \div 10), DigitOf(n % 10))

Indent(d) == [i \in 1..(2 * d) |-> SP]

\* JSON.stringify(v, replacer, 2) at nesting depth d.  The replacer of
\* appendToolStreamLog changes only cyclic objects and strings of more than
\* 20000 characters, which the payloads here never hold.
RECURSIVE Stringify(_, _)
RECURSIVE StringifyPairs(_, _, _)
StringifyPairs(ps, d, isObj) ==
  IF ps = <<>> THEN <<>>
  ELSE <<LF>> \o Indent(d)
       \o (IF isObj THEN <<QUOTE>> \o QuoteChars(Head(ps)[1]) \o <<QUOTE, ":", SP>> ELSE <<>>)
       \o Stringify(Head(ps)[2], d)
       \o (IF Len(ps) > 1 THEN <<",">> ELSE <<>>)
       \o StringifyPairs(Tail(ps), d, isObj)

Stringify(v, d) ==
  CASE v.t = "null" -> <<"null">>
    [] v.t = "bool" -> IF v.n = 1 THEN <<"true">> ELSE <<"false">>
    [] v.t = "num" -> DecimalDigits(v.n)
    [] v.t = "str" -> <<QUOTE>> \o QuoteChars(v.s) \o <<QUOTE>>
    [] v.t = "obj" ->
         IF v.o = <<>> THEN <<"{", "}">>
         ELSE <<"{">> \o StringifyPairs(v.o, d + 1, TRUE) \o <<LF>> \o Indent(d) \o <<"}">>
    [] v.t = "arr" ->
         IF v.o = <<>> THEN <<"[", "]">>
         ELSE <<"[">> \o StringifyPairs(v.o, d + 1, FALSE) \o <<LF>> \o Indent(d) \o <<"]">>
    [] OTHER -> <<"null">>

\* ------------------------------------------------------------- the parser

\* `${v}` in a template literal.
TemplateString(v) ==
  CASE v.t = "str" -> v.s
    [] v.t = "undef" -> <<"undefined">>
    [] v.t = "null" -> <<"null">>
    [] v.t = "num" -> DecimalDigits(v.n)
    [] v.t = "bool" -> IF v.n = 1 THEN <<"true">> ELSE <<"false">>
    [] OTHER -> <<"[object Object]">>

\* a || b
OrElse(a, b) == IF Truthy(a) THEN a ELSE b

\* a + b on the numbers the token counts are.
JsAdd(a, b) == IF a.t = "num" /\ b.t = "num" THEN Num(a.n + b.n) ELSE Str(<<"NaN">>)

\* The parser right after its constructor: the fields of this.state, then
\* the buffers and flags of the object itself.  calls is the sequence of
\* callback invocations made so far, throwers the registered callbacks that
\* throw (the default callbacks do nothing), threw the exception in flight.
NewParser ==
  [ metadata |-> [sessionId |-> Str(<<>>), messageId |-> Str(<<>>),
                  model |-> Str(<<>>), startTime |-> Str(<<>>)],
    thinking |-> <<>>,
    assistantText |-> <<>>,
    toolUses |-> <<>>,
    toolCommands |-> <<>>,
    fullToolCommand |-> <<>>,
    tables |-> <<>>,
    chronologicalEvents |-> <<>>,
    webSearchActivity |-> <<>>,
    toolActivity |-> <<>>,
    usage |-> [inputTokens |-> Num(0), outputTokens |-> Num(0),
               totalTokens |-> Num(0), cacheReadTokens |-> Undef],
    isComplete |-> FALSE,
    buffer |-> <<>>,
    jsonBuffer |-> <<>>,
    currentToolInput |-> <<>>,
    currentToolName |-> Str(<<>>),
    currentToolId |-> Str(<<>>),
    isWebSearchActive |-> FALSE,
    isToolActive |-> FALSE,
    calls |-> <<>>,
    throwers |-> {},
    threw |-> FALSE ]

\* this.callbacks.cb(a): the invocation is recorded; a registered callback
\* that throws leaves an exception in flight.
Call(p, cb, a) ==
  [p EXCEPT !.calls = Append(@, [cb |-> cb, a |-> a]),
            !.threw = cb \in p.throwers]

\* An entry of chronologicalEvents.  The timestamp is left out.  A tool_use or
\* tool_complete entry holds the very object that toolUses holds, so its
\* content is the index of that entry (ref), read through toolUses.
ChronoEvent(type, content, ref) == [type |-> type, content |-> content, ref |-> ref]

\* /\\u([0-9a-fA-F]{4})/g replaced by String.fromCharCode
RECURSIVE ReplaceUnicode(_)
ReplaceUnicode(s) ==
  LET ms == {i \in 1..(Len(s) - 5) :
               /\ MatchAt(s, i, <<BSLASH, "u">>)
               /\ \A k \in (i + 2)..(i + 5) : s[k] \in HexDigits}
      m == CHOOSE i \in ms : \A k \in ms : i <= k
  IN IF ms = {} THEN s
     ELSE SubSeq(s, 1, m - 1) \o <<CodeChar(SubSeq(s, m + 2, m + 5))>>
            \o ReplaceUnicode(SubSeq(s, m + 6, Len(s)))

\* unescapeText on a string: seven replacements, one after the other.
UnescapeChars(text) ==
  LET r1 == ReplaceAll(text, <<BSLASH, "n">>, <<LF>>)
      r2 == ReplaceAll(r1, <<BSLASH, QUOTE>>, <<QUOTE>>)
      r3 == ReplaceAll(r2, <<BSLASH, "t">>, <<TAB>>)
      r4 == ReplaceAll(r3, <<BSLASH, "r">>, <<CR>>)
      r5 == ReplaceAll(r4, <<BSLASH, "/">>, <<"/">>)
      r6 == ReplaceUnicode(r5)
  IN ReplaceAll(r6, <<BSLASH, BSLASH>>, <<BSLASH>>)

\* unescapeText(text) throws on a truthy value that is no string
\* (text.replace is not a function).
UnescapeThrows(text) == Truthy(text) /\ text.t # "str"

unescapeText(text) == IF ~Truthy(text) THEN <<>> ELSE UnescapeChars(text.s)

\* The first position from i on that holds no \s character.
SkipSpace(s, i) ==
  LET js == {j \in i..Len(s) : s[j] \notin WhiteSpace}
  IN IF js = {} THEN Len(s) + 1 ELSE CHOOSE j \in js : \A k \in js : j <= k

\* /"key":\s*"([^"]+)"/ tried at position i: the capture, or <<>> for no
\* match there (a capture is never empty).
KeyCaptureAt(s, i, key) ==
  IF ~MatchAt(s, i, <<QUOTE, key, QUOTE, ":">>) THEN <<>>
  ELSE LET j == SkipSpace(s, i + 4)
           qs == {k \in (j + 1)..Len(s) : s[k] = QUOTE}
       IN IF j > Len(s) \/ s[j] # QUOTE \/ qs = {} THEN <<>>
          ELSE LET k == CHOOSE x \in qs : \A y \in qs : x <= y
               IN SubSeq(s, j + 1, k - 1)

\* s.match(/"(k1|k2|...)":\s*"([^"]+)"/): the capture of the leftmost match,
\* or <<>> when match returns null.
KeyMatch(s, keys) ==
  LET hits == {i \in 1..Len(s) : \E key \in keys : KeyCaptureAt(s, i, key) # <<>>}
  IN IF hits = {} THEN <<>>
     ELSE LET i == CHOOSE x \in hits : \A y \in hits : x <= y
              key == CHOOSE k \in keys : KeyCaptureAt(s, i, k) # <<>>
          IN KeyCaptureAt(s, i, key)

\* ------------------------------------------------------- markdown tables

\* The first newline from position i on, or Len(s) + 1.
LineEnd(s, i) ==
  LET nl == {j \in i..Len(s) : s[j] = LF}
  IN IF nl = {} THEN Len(s) + 1 ELSE CHOOSE j \in nl : \A k \in nl : j <= k

\* (?:\|[^\n]+\|\n?)+ from position m: the position after the rows matched,
\* or 0 when not even one row matches.  Each row takes the last '|' of its
\* line and the newline when it follows.
RECURSIVE MatchRows(_, _, _)

\* A row from m whose closing '|' is among qs, the bars of its line.
MatchRow(s, m, any, qs) ==
  IF m > Len(s) \/ s[m] # "|" \/ qs = {} THEN (IF any THEN m ELSE 0)
  ELSE LET q == CHOOSE x \in qs : \A y \in qs : x >= y
       IN IF q + 1 <= Len(s) /\ s[q + 1] = LF
          THEN MatchRows(s, q + 2, TRUE)
          ELSE q + 1

MatchRows(s, m, any) ==
  MatchRow(s, m, any, {q \in (m + 2)..(LineEnd(s, m) - 1) : s[q] = "|"})

\* The separator row from j and the rows after it: the separator ends at
\* the last '|' before a newline reached through [-:\s|] after which the
\* rows still match.
MatchSeparator(s, j, ks) ==
  IF j > Len(s) \/ s[j] # "|" \/ ks = {} THEN 0
  ELSE MatchRows(s, (CHOOSE x \in ks : \A y \in ks : x >= y) + 2, FALSE)

\* The header row from i, which ends at e, the end of its line.
MatchHeader(s, i, e) ==
  IF ~(s[i] = "|" /\ e <= Len(s) /\ e - 1 >= i + 2 /\ s[e - 1] = "|") THEN 0
  ELSE MatchSeparator(s, e + 1,
         {k \in (e + 3)..(Len(s) - 1) :
            /\ s[k] = "|"
            /\ s[k + 1] = LF
            /\ \A x \in (e + 2)..(k - 1) : s[x] \in {"-", ":", "|"} \cup WhiteSpace
            /\ MatchRows(s, k + 2, FALSE) # 0})

\* The table regex tried at position i: the position after the match, or 0.
MatchTableAt(s, i) == MatchHeader(s, i, LineEnd(s, i))

\* [...text.matchAll(tableRegex)] searched from position i: the matched texts.
RECURSIVE TableMatches(_, _)

\* The match at x, the leftmost, which ends before e; then the later ones.
TableMatchFrom(s, x, e) == <<SubSeq(s, x, e - 1)>> \o TableMatches(s, e)

TableMatchFirst(s, hits) ==
  IF hits = {} THEN <<>>
  ELSE TableMatchFrom(s, CHOOSE a \in hits : \A b \in hits : a <= b,
                      MatchTableAt(s, CHOOSE a \in hits : \A b \in hits : a <= b))

TableMatches(s, i) == TableMatchFirst(s, {x \in i..Len(s) : MatchTableAt(s, x) # 0})

\* line.split('|')
RECURSIVE SplitCells(_)
SplitCells(s) ==
  LET bars == {i \in 1..Len(s) : s[i] = "|"}
  IN IF bars = {} THEN <<s>>
     ELSE LET i == CHOOSE k \in bars : \A j \in bars : k <= j
          IN <<SubSeq(s, 1, i - 1)>> \o SplitCells(SubSeq(s, i + 1, Len(s)))

\* xs.filter(x => x.trim())
RECURSIVE FilterNonBlank(_)
FilterNonBlank(xs) ==
  IF xs = <<>> THEN <<>>
  ELSE (IF Trim(Head(xs)) # <<>> THEN <<Head(xs)>> ELSE <<>>) \o FilterNonBlank(Tail(xs))

\* line.split('|').filter(cell => cell.trim()).map(cell => cell.trim())
Cells(line) ==
  LET kept == FilterNonBlank(SplitCells(line))
  IN [i \in 1..Len(kept) |-> Trim(kept[i])]

\* The rows of lines i.., a row without cells left out.
RECURSIVE TableRows(_, _)
TableRows(lines, i) ==
  IF i > Len(lines) THEN <<>>
  ELSE (IF Cells(lines[i]) # <<>> THEN <<Cells(lines[i])>> ELSE <<>>) \o TableRows(lines, i + 1)

\* The table of the non-blank lines of a matched text.
TableOf(lines, headers, rows, tableText) ==
  IF Len(lines) < 3 THEN [ok |-> FALSE, table |-> <<>>]
  ELSE [ok |-> TRUE,
        table |-> [headers |-> headers, rows |-> rows, rowCount |-> Len(rows),
                   columnCount |-> Len(headers), rawText |-> tableText]]

TableOfLines(lines, tableText) ==
  IF Len(lines) < 3 THEN TableOf(lines, <<>>, <<>>, tableText)
  ELSE TableOf(lines, Cells(lines[1]), TableRows(lines, 3), tableText)

\* parseMarkdownTable(tableText): [ok |-> FALSE] stands for null.
parseMarkdownTable(tableText) ==
  TableOfLines(FilterNonBlank(SplitLines(Trim(tableText))), tableText)

\* The loop of detectAndParseTables from match i (counted from 1) on.
RECURSIVE ParseNewTables(_, _, _)

\* The table just pushed is announced, and the loop goes on.
AnnounceTable(p, matches, i) ==
  ParseNewTables(Call(p, "onTableDetected", Num(Len(p.tables))), matches, i + 1)

\* parsedTable, when it is one, is pushed.
PushTable(p, matches, i, t) ==
  IF ~t.ok THEN ParseNewTables(p, matches, i + 1)
  ELSE AnnounceTable([p EXCEPT !.tables = Append(@, t.table),
                               !.chronologicalEvents =
                                  Append(@, ChronoEvent("table", Undef, Len(p.tables) + 1))],
                     matches, i)

ParseNewTables(p, matches, i) ==
  IF i > Len(matches) \/ p.threw THEN p
  ELSE PushTable(p, matches, i, parseMarkdownTable(matches[i]))

\* A faulty variant of NewTables, which parses every match again at each
\* call: C12 must reject it.
NewTablesReparsing(p, matches) ==
  ParseNewTables([p EXCEPT !.tables = <<>>], matches, 1)

NewTables(p, matches) ==
  IF Len(matches) > Len(p.tables)
  THEN ParseNewTables(p, matches, Len(p.tables) + 1)
  ELSE p

detectAndParseTables(p) == NewTables(p, TableMatches(p.assistantText, 1))

\* ------------------------------------------------------------ handleEvent

\* command.substring(0, 50) and promptMatch[1].length > 100, counted in lexemes.
ProcessingLimit == 50
PromptLimit == 100

\* A faulty variant of SetUsage, which adds the counters it had before the
\* update: C6 must reject it.
SetUsageStale(p, inputTokens, outputTokens, cacheReadTokens) ==
  [p EXCEPT !.usage = [inputTokens |-> inputTokens,
                       outputTokens |-> outputTokens,
                       cacheReadTokens |-> cacheReadTokens,
                       totalTokens |-> JsAdd(p.usage.inputTokens, p.usage.outputTokens)]]

\* The assignment of this.state.usage from the three counters computed.
SetUsage(p, inputTokens, outputTokens, cacheReadTokens) ==
  [p EXCEPT !.usage = [inputTokens |-> inputTokens,
                       outputTokens |-> outputTokens,
                       cacheReadTokens |-> cacheReadTokens,
                       totalTokens |-> JsAdd(inputTokens, outputTokens)]]

updateUsage(p, usage) ==
  SetUsage(p,
           OrElse(Get(usage, "input_tokens"), OrElse(p.usage.inputTokens, Num(0))),
           OrElse(Get(usage, "output_tokens"), OrElse(p.usage.outputTokens, Num(0))),
           OrElse(Get(usage, "cache_read_input_tokens"), Num(0)))

\* if (event.session_id) { ... }; reading a property of null throws.
HandleSession(p, event) ==
  IF Throws(event) THEN [p EXCEPT !.threw = TRUE]
  ELSE IF Truthy(Get(event, "session_id"))
       THEN [p EXCEPT !.metadata.sessionId = Get(event, "session_id"),
                      !.metadata.model = Get(event, "model")]
       ELSE p

\* if (event.message.usage) this.updateUsage(event.message.usage)
MessageUsage(p, message) ==
  IF Truthy(Get(message, "usage")) THEN updateUsage(p, Get(message, "usage")) ELSE p

HandleMessageStart(p, event) ==
  IF p.threw THEN p
  ELSE IF Get(event, "type") = W("message_start") /\ Truthy(Get(event, "message"))
  THEN MessageUsage([p EXCEPT !.metadata.messageId = Get(Get(event, "message"), "id")],
                    Get(event, "message"))
  ELSE p

\* this.callbacks.onTextUpdate(text, this.state.assistantText), after the tables.
TextCallback(p, text) == IF p.threw THEN p ELSE Call(p, "onTextUpdate", Str(text))

\* A faulty variant of AppendText, which assigns assistantText where the
\* code appends to it: C5 must reject it.
AppendTextAssigning(p, text) ==
  TextCallback(detectAndParseTables(
                 [p EXCEPT !.assistantText = text,
                           !.chronologicalEvents = Append(@, ChronoEvent("text", Str(text), 0))]),
               text)

\* The text_delta block on the unescaped text.
AppendText(p, text) ==
  TextCallback(detectAndParseTables(
                 [p EXCEPT !.assistantText = @ \o text,
                           !.chronologicalEvents = Append(@, ChronoEvent("text", Str(text), 0))]),
               text)

HandleTextDelta(p, delta) ==
  IF UnescapeThrows(Get(delta, "text")) THEN [p EXCEPT !.threw = TRUE]
  ELSE AppendText(p, unescapeText(Get(delta, "text")))

\* The thinking_delta block on the unescaped text.
AppendThinking(p, thinking) ==
  Call([p EXCEPT !.thinking = @ \o thinking,
                 !.chronologicalEvents = Append(@, ChronoEvent("thinking", Str(thinking), 0))],
       "onThinkingUpdate", Str(thinking))

HandleThinkingDelta(p, delta) ==
  IF UnescapeThrows(Get(delta, "thinking")) THEN [p EXCEPT !.threw = TRUE]
  ELSE AppendThinking(p, unescapeText(Get(delta, "thinking")))

\* One of the narration blocks: a line is pushed when the key matches
\* and the last line of the activity does not hold the marker.
Narrate(activity, capture, marker, line) ==
  IF capture # <<>> /\ (activity = <<>> \/ ~Includes(Last(activity), marker))
  THEN Append(activity, line)
  ELSE activity

\* The first position from i on that holds neither \r nor \n.
SkipNewlines(s, i) ==
  LET rest == {j \in i..Len(s) : s[j] \notin {CR, LF}}
  IN IF rest = {} THEN Len(s) + 1 ELSE CHOOSE j \in rest : \A k \in rest : j <= k

\* command.replace(/[\r\n]+/g, ' ')
RECURSIVE CollapseNewlines(_)
CollapseNewlines(s) ==
  LET ms == {i \in 1..Len(s) : s[i] \in {CR, LF}}
      m == CHOOSE i \in ms : \A k \in ms : i <= k
  IN IF ms = {} THEN s
     ELSE SubSeq(s, 1, m - 1) \o <<SP>>
            \o CollapseNewlines(SubSeq(s, SkipNewlines(s, m), Len(s)))

Truncate(s, n) == IF Len(s) > n THEN SubSeq(s, 1, n) ELSE s

\* promptMatch[1].length > 100 ? promptMatch[1].substring(0, 100) + '...' : promptMatch[1]
TruncatedPrompt(prompt) ==
  IF Len(prompt) > PromptLimit
  THEN SubSeq(prompt, 1, PromptLimit) \o <<".", ".", ".">>
  ELSE prompt

\* The three narration blocks on the captures of query, url and prompt.
NarrateTool(activity, queryMatch, urlMatch, promptMatch) ==
  Narrate(
    Narrate(
      Narrate(activity, queryMatch, <<"Query", ":">>,
              <<SP, SP, "arrow", SP, "Query", ":", SP, QUOTE>> \o queryMatch \o <<QUOTE>>),
      urlMatch, <<"URL", ":">>,
      <<SP, SP, "arrow", SP, "URL", ":", SP>> \o urlMatch),
    promptMatch, <<"Prompt", ":">>,
    <<SP, SP, "arrow", SP, "Prompt", ":", SP, QUOTE>> \o TruncatedPrompt(promptMatch) \o <<QUOTE>>)

\* The narration of the tool's parameters into toolActivity.
ToolNarration(p) ==
  IF p.isToolActive /\ Truthy(p.currentToolName)
  THEN [p EXCEPT !.toolActivity =
          NarrateTool(@, KeyMatch(p.currentToolInput, {"query"}),
                         KeyMatch(p.currentToolInput, {"url"}),
                         KeyMatch(p.currentToolInput, {"prompt"}))]
  ELSE p

\* The legacy block on the capture of search_term or query and the cleaned
\* chunk.
NarrateWebSearch(p, command, potentialMatch, cleanChunk) ==
  IF potentialMatch # <<>> /\ Includes(command, <<QUOTE>>)
  THEN [p EXCEPT !.webSearchActivity =
           Narrate(@, potentialMatch, <<"Searching", SP, "for", ":">>,
                   <<SP, SP, "arrow", SP, "Searching", SP, "for", ":", SP, QUOTE>>
                     \o potentialMatch \o <<QUOTE>>)]
  ELSE IF Trim(cleanChunk) # <<>>
       THEN [p EXCEPT !.webSearchActivity =
                Append(@, <<SP, SP, "bolt", SP, "Processing", ":", SP>>
                            \o cleanChunk \o <<".", ".", ".">>)]
       ELSE p

\* The legacy narration into webSearchActivity.
WebSearchNarration(p, command) ==
  IF ~p.isWebSearchActive THEN p
  ELSE NarrateWebSearch(p, command,
                        KeyMatch(p.currentToolInput, {"search_term", "query"}),
                        Truncate(CollapseNewlines(command), ProcessingLimit))

\* The chronological entry and the callback that end the input_json_delta block.
CommandEvent(p, command) ==
  Call([p EXCEPT !.chronologicalEvents =
                    Append(@, ChronoEvent("tool_command", Str(command), 0))],
       "onToolCommand", Str(command))

\* The input_json_delta block on the unescaped fragment.
AppendCommand(p, command) ==
  CommandEvent(
    WebSearchNarration(
      ToolNarration([p EXCEPT !.currentToolInput = @ \o command,
                              !.toolCommands = Append(@, command),
                              !.fullToolCommand = @ \o command]),
      command),
    command)

HandleInputJsonDelta(p, delta) ==
  IF UnescapeThrows(Get(delta, "partial_json")) THEN [p EXCEPT !.threw = TRUE]
  ELSE AppendCommand(p, unescapeText(Get(delta, "partial_json")))

\* The three tests on event.delta.type, in the order of the code; the
\* types exclude one another, and a block that throws ends the handler.
DeltaByType(p, delta, type) ==
  IF type = W("text_delta") THEN HandleTextDelta(p, delta)
  ELSE IF type = W("thinking_delta") THEN HandleThinkingDelta(p, delta)
  ELSE IF type = W("input_json_delta") THEN HandleInputJsonDelta(p, delta)
  ELSE p

HandleContentBlockDelta(p, event) ==
  IF p.threw THEN p
  ELSE IF Get(event, "type") = W("content_block_delta") /\ Truthy(Get(event, "delta"))
  THEN DeltaByType(p, Get(event, "delta"), Get(Get(event, "delta"), "type"))
  ELSE p

\* The emoji of the line of toolActivity that announces the tool.
ToolEmoji(name) ==
  IF name = W("WebSearch") THEN "magnifier"
  ELSE IF name = W("WebFetch") THEN "page" ELSE "wrench"

\* The tool start block on the id and the name of the content block.
StartTool(p, id, name, web) ==
  Call([p EXCEPT !.currentToolId = id,
                 !.currentToolName = name,
                 !.currentToolInput = <<>>,
                 !.isWebSearchActive = web,
                 !.isToolActive = TRUE,
                 !.toolUses = Append(@, [id |-> id, name |-> name, input |-> Null]),
                 !.chronologicalEvents =
                    Append(@, ChronoEvent("tool_use", Undef, Len(p.toolUses) + 1)),
                 !.toolActivity =
                    Append(@, <<ToolEmoji(name), SP, "Starting", SP>>
                                \o TemplateString(name) \o <<".", ".", ".">>),
                 !.webSearchActivity =
                    IF web THEN Append(@, <<"magnifier", SP, "Starting", SP, "web", SP,
                                            "search", ".", ".", ".">>)
                    ELSE @],
       "onToolUse", Num(Len(p.toolUses) + 1))

\* toolUse.name === 'WebSearch' || toolUse.name === 'web_search'
IsWebSearch(name) == name = W("WebSearch") \/ name = W("web_search")

HandleToolStart(p, event) ==
  IF p.threw THEN p
  ELSE IF /\ Get(event, "type") = W("content_block_start")
          /\ Truthy(Get(event, "content_block"))
          /\ Get(Get(event, "content_block"), "type") = W("tool_use")
  THEN StartTool(p, Get(Get(event, "content_block"), "id"),
                    Get(Get(event, "content_block"), "name"),
                    IsWebSearch(Get(Get(event, "content_block"), "name")))
  ELSE p

\* A faulty variant of ParsedOrRaw, which leaves the input null when
\* JSON.parse throws: C10 must reject it.
ParsedOrNull(r, currentToolInput) == IF r.ok THEN r.v ELSE Null

\* try { lastTool.input = JSON.parse(...) } catch (e) { lastTool.input = ... }
\* on r, what JSON.parse gave.
ParsedOrRaw(r, currentToolInput) == IF r.ok THEN r.v ELSE Str(currentToolInput)

\* The value content_block_stop stores as the input of the tool.
FinalInput(currentToolInput) == ParsedOrRaw(JSONParse(currentToolInput), currentToolInput)

\* A faulty variant of StopTarget, which takes the first entry for the
\* last: C4 must reject it.
StopTargetFirst(toolUses) == 1

\* The index of the entry of toolUses that content_block_stop writes to.
StopTarget(toolUses) == Len(toolUses)

\* The end of the tool stop block: the activity lines and the reset.
FinishTool(p) ==
  IF p.threw THEN p
  ELSE [p EXCEPT !.toolActivity =
                    IF p.isToolActive
                    THEN Append(@, <<"check", SP>> \o TemplateString(p.currentToolName)
                                     \o <<SP, "completed", LF>>)
                    ELSE @,
                 !.webSearchActivity =
                    IF p.isWebSearchActive
                    THEN Append(@, <<"check", SP, "Web", SP, "search", SP, "completed">>)
                    ELSE @,
                 !.isWebSearchActive = FALSE,
                 !.currentToolInput = <<>>,
                 !.currentToolName = Str(<<>>),
                 !.currentToolId = Str(<<>>),
                 !.isToolActive = FALSE]

\* The tool stop block on lastTool, the entry of index last.
StopTool(p, last) ==
  FinishTool(
    Call([p EXCEPT !.toolUses[last].input = FinalInput(p.currentToolInput),
                   !.chronologicalEvents =
                      Append(@, ChronoEvent("tool_complete", Undef, last))],
         "onToolComplete", Num(last)))

HandleToolStop(p, event) ==
  IF p.threw THEN p
  ELSE IF /\ Get(event, "type") = W("content_block_stop")
          /\ p.currentToolInput # <<>>
          /\ Len(p.toolUses) > 0
  THEN StopTool(p, StopTarget(p.toolUses))
  ELSE p

HandleMessageDelta(p, event) ==
  IF p.threw THEN p
  ELSE IF Get(event, "type") = W("message_delta") /\ Truthy(Get(event, "usage"))
  THEN updateUsage(p, Get(event, "usage"))
  ELSE p

\* A faulty variant of HandleMessageStop, which flips isComplete at each
\* message_stop: C14 must reject it.
HandleMessageStopToggling(p, event) ==
  IF p.threw THEN p
  ELSE IF Get(event, "type") = W("message_stop")
  THEN Call([p EXCEPT !.isComplete = ~@], "onComplete", Undef)
  ELSE p

HandleMessageStop(p, event) ==
  IF p.threw THEN p
  ELSE IF Get(event, "type") = W("message_stop")
  THEN Call([p EXCEPT !.isComplete = TRUE], "onComplete", Undef)
  ELSE p

\* handleEvent(event): its blocks in order; a block that follows one that
\* threw does nothing.
handleEvent(p, event) ==
  HandleMessageStop(
    HandleMessageDelta(
      HandleToolStop(
        HandleToolStart(
          HandleContentBlockDelta(
            HandleMessageStart(
              HandleSession(p, event), event), event), event), event), event), event)

\* ---------------------------------------------------------- extractEvents

Labels == {"session_init", "stream_event", "tool_use_from_stream"}

\* trimmed.startsWith('[') && trimmed.includes(']')
IsTimestampLine(trimmed) == StartsWith(trimmed, <<"[">>) /\ Includes(trimmed, <<"]">>)

\* trimmed.match(/^(session_init|stream_event|tool_use_from_stream):/)
IsLabelLine(trimmed) == Len(trimmed) >= 2 /\ trimmed[1] \in Labels /\ trimmed[2] = ":"

\* A faulty variant of PushParsed, which emits what JSON.parse gave even
\* when it failed: C18 must reject it.
PushParsedAlways(x, r, clear) ==
  [x EXCEPT !.events = Append(@, r.v),
            !.jsonBuffer = IF clear THEN <<>> ELSE @]

\* try { events.push(JSON.parse(...)) } catch (e) { } on r, what JSON.parse
\* gave; the accumulator is cleared when clear holds.
PushParsed(x, r, clear) ==
  [x EXCEPT !.events = IF r.ok THEN Append(@, r.v) ELSE @,
            !.jsonBuffer = IF clear THEN <<>> ELSE @]

\* A flush point: the accumulator is parsed and emitted when it parses, and
\* cleared either way.
Flush(x) ==
  IF x.jsonBuffer = <<>> THEN x ELSE PushParsed(x, JSONParse(x.jsonBuffer), TRUE)

\* this.jsonBuffer.replace(/,$/, '')
StripComma(s) == IF s # <<>> /\ Last(s) = "," THEN Front(s) ELSE s

\* The accumulator is parsed when the line ends with } or }, and cleared
\* when it parses.
TryComplete(x, r) == PushParsed(x, r, r.ok)

\* A line that is neither skipped nor a flush point: appended to the
\* accumulator.
Accumulate(x, trimmed) ==
  IF EndsWith(trimmed, <<"}">>) \/ EndsWith(trimmed, <<"}", ",">>)
  THEN TryComplete([x EXCEPT !.jsonBuffer = @ \o trimmed],
                   JSONParse(StripComma(x.jsonBuffer \o trimmed)))
  ELSE [x EXCEPT !.jsonBuffer = @ \o trimmed]

\* What the loop does with a trimmed line.
LineKind(trimmed) ==
  IF trimmed = <<>> THEN "skip"
  ELSE IF Includes(trimmed, <<"tool_use_from_stream", ":">>) THEN "flush"
  ELSE IF Includes(trimmed, <<"input_json_delta", ":">>) THEN "skip"
  ELSE IF IsTimestampLine(trimmed) \/ IsLabelLine(trimmed) THEN "flush"
  ELSE "json"

\* The body of the loop on a trimmed line of kind kind.
ExtractTrimmed(x, trimmed, kind) ==
  IF kind = "skip" THEN x
  ELSE IF kind = "flush" THEN Flush(x)
  ELSE Accumulate(x, trimmed)

\* The body of the loop over the lines, on x = [jsonBuffer, events].
ExtractLine(x, line) == ExtractTrimmed(x, Trim(line), LineKind(Trim(line)))

\* The loop over the lines.  (The test on y makes TLC compute y before it
\* reads the next line; it is always true.)
RECURSIVE ExtractLines(_, _)

NextLine(y, lines) == IF Len(y.events) >= 0 THEN ExtractLines(y, lines) ELSE y

ExtractLines(x, lines) ==
  IF lines = <<>> THEN x ELSE NextLine(ExtractLine(x, Head(lines)), Tail(lines))

\* A faulty variant of KeepLast, which forgets the last line: C19 must
\* reject it.
KeepLastDropped(p, lines, x) ==
  [p |-> [p EXCEPT !.buffer = <<>>, !.jsonBuffer = x.jsonBuffer],
   events |-> x.events]

\* The end of extractEvents: the last line stays in the buffer.
KeepLast(p, lines, x) ==
  [p |-> [p EXCEPT !.buffer = Last(lines), !.jsonBuffer = x.jsonBuffer],
   events |-> x.events]

\* The loop of extractEvents over all the lines but the last.
ExtractFrom(p, lines) ==
  KeepLast(p, lines, ExtractLines([jsonBuffer |-> p.jsonBuffer, events |-> <<>>], Front(lines)))

\* extractEvents(): the parser with its buffers updated, and the events.
extractEvents(p) == ExtractFrom(p, SplitLines(p.buffer))

\* events.forEach(event => this.handleEvent(event)): an exception ends it.
RECURSIVE HandleEvents(_, _)
HandleEvents(p, events) ==
  IF events = <<>> \/ p.threw THEN p
  ELSE HandleEvents(handleEvent(p, Head(events)), Tail(events))

\* A faulty variant of CatchError, which hands the exception to onError and
\* lets it go on: C17 must reject it.
CatchErrorRethrowing(p) ==
  IF p.threw
  THEN [p EXCEPT !.calls = Append(@, [cb |-> "onError", a |-> W("TypeError")])]
  ELSE p

\* catch (error) { this.callbacks.onError(error); }
CatchError(p) ==
  IF p.threw
  THEN [p EXCEPT !.calls = Append(@, [cb |-> "onError", a |-> W("TypeError")]),
                 !.threw = FALSE]
  ELSE p

\* The events extracted are handled one after the other.
HandleExtracted(x) == HandleEvents(x.p, x.events)

\* processChunk(chunk): an exception is caught and passed to onError.
processChunk(p, chunk) ==
  CatchError(HandleExtracted(extractEvents([p EXCEPT !.buffer = @ \o chunk])))

\* reset(): the state object is replaced, with an empty metadata and an
\* empty usage (a property they do not have reads as undefined), and the
\* buffers and the tool tracking are cleared.  The callbacks stay.
reset(p) ==
  [p EXCEPT !.metadata = [sessionId |-> Undef, messageId |-> Undef,
                          model |-> Undef, startTime |-> Undef],
            !.thinking = <<>>,
            !.assistantText = <<>>,
            !.toolUses = <<>>,
            !.toolCommands = <<>>,
            !.fullToolCommand = <<>>,
            !.tables = <<>>,
            !.chronologicalEvents = <<>>,
            !.webSearchActivity = <<>>,
            !.toolActivity = <<>>,
            !.usage = [inputTokens |-> Undef, outputTokens |-> Undef,
                       totalTokens |-> Undef, cacheReadTokens |-> Undef],
            !.isComplete = FALSE,
            !.buffer = <<>>,
            !.jsonBuffer = <<>>,
            !.currentToolInput = <<>>,
            !.currentToolName = Str(<<>>),
            !.currentToolId = Str(<<>>),
            !.isWebSearchActive = FALSE,
            !.isToolActive = FALSE]

\* What getState() returns of a parser, the timestamps and the derived stats
\* left out.
StateView(p) ==
  [ metadata |-> p.metadata, thinking |-> p.thinking, assistantText |-> p.assistantText,
    toolUses |-> p.toolUses, toolCommands |-> p.toolCommands,
    fullToolCommand |-> p.fullToolCommand, tables |-> p.tables,
    chronologicalEvents |-> p.chronologicalEvents,
    webSearchActivity |-> p.webSearchActivity, toolActivity |-> p.toolActivity,
    usage |-> p.usage, isComplete |-> p.isComplete ]

\* A faulty variant of getState, which hands the state over and starts the
\* parser afresh: C21 must reject it.
getStateConsuming(p) ==
  [p |-> reset(p),
   result |->
     [stats |->
        [textLength |-> Len(p.assistantText),
         thinkingLength |-> Len(p.thinking),
         wordCount |-> 0,
         toolCount |-> Len(p.toolUses),
         commandParts |-> Len(p.toolCommands),
         totalEvents |-> Len(p.chronologicalEvents)]] @@ StateView(p)]

\* getState(): the fields of this.state with the stats computed from them,
\* and the parser as the call leaves it.  wordCount is the number of runs of
\* characters that are no white space.
getState(p) ==
  [p |-> p,
   result |->
     [stats |->
        [textLength |-> Len(p.assistantText),
         thinkingLength |-> Len(p.thinking),
         wordCount |->
           Cardinality({i \in 1..Len(p.assistantText) :
                          /\ p.assistantText[i] \notin WhiteSpace
                          /\ i = 1 \/ p.assistantText[i - 1] \in WhiteSpace}),
         toolCount |-> Len(p.toolUses),
         commandParts |-> Len(p.toolCommands),
         totalEvents |-> Len(p.chronologicalEvents)]] @@ StateView(p)]

\* tool.input.prompt.length > 150
FormatPromptLimit == 150

\* getFormattedOutput(): the text, then the section of toolActivity and the
\* section of webSearchActivity when they hold lines, then the summary of
\* the tools; and the parser as the call leaves it.  "fence" stands for the
\* three backquotes, "wrench", "globe" and "clipboard" for the emoji.
getFormattedOutput(p) ==
  LET Lines(ls) == Flatten([k \in 1..Len(ls) |-> ls[k] \o <<LF>>])
      Section(title, ls) ==
        IF ls = <<>> THEN <<>>
        ELSE <<LF, LF, "-", "-", "-", LF, "#", "#", "#", SP>> \o title
               \o <<LF, "fence", LF>> \o Lines(ls) \o <<"fence", LF>>
      Shown(v) ==
        IF v.t = "str" /\ Len(v.s) > FormatPromptLimit
        THEN SubSeq(v.s, 1, FormatPromptLimit) \o <<".", ".", ".">>
        ELSE TemplateString(v)
      Param(input, key, head, tail, text) ==
        IF Truthy(input) /\ Truthy(Get(input, key))
        THEN <<SP, SP, SP, "-", SP>> \o head \o text \o tail \o <<LF>>
        ELSE <<>>
      Summary(tool, idx) ==
        <<LF, "*", "*">> \o DecimalDigits(idx) \o <<".", SP>> \o TemplateString(tool.name)
          \o <<"*", "*", SP, "(", "ID", ":", SP>> \o TemplateString(tool.id) \o <<")", LF>>
          \o Param(tool.input, "query", <<"Query", ":", SP, QUOTE>>, <<QUOTE>>,
                   TemplateString(Get(tool.input, "query")))
          \o Param(tool.input, "url", <<"URL", ":", SP>>, <<>>,
                   TemplateString(Get(tool.input, "url")))
          \o Param(tool.input, "prompt", <<"Prompt", ":", SP, QUOTE>>, <<QUOTE>>,
                   Shown(Get(tool.input, "prompt")))
  IN [p |-> p,
      result |->
        p.assistantText
          \o Section(<<"wrench", SP, "Tool", SP, "Activity", SP, "Log", ":">>, p.toolActivity)
          \o Section(<<"globe", SP, "Web", SP, "Search", SP, "Activity", SP,
                       "(", "Detailed", ")", ":">>, p.webSearchActivity)
          \o (IF p.toolUses = <<>> THEN <<>>
              ELSE <<LF, LF, "-", "-", "-", LF, "#", "#", "#", SP, "clipboard", SP,
                     "Tools", SP, "Summary", ":", LF>>
                     \o Flatten([k \in 1..Len(p.toolUses) |-> Summary(p.toolUses[k], k)]))]

\* ------------------------------------------------------- parseCompleteLog

\* line.includes('stream_event') || ... : the line closes the current chunk.
IsBoundaryLine(line) ==
  \/ Includes(line, <<"stream_event">>)
  \/ Includes(line, <<"tool_use_from_stream">>)
  \/ Includes(line, <<"session_complete">>)

\* The loop over logText.split('\n') on [p, currentChunk], then the rest.
RECURSIVE ReplayLines(_, _, _)
ReplayLines(p, currentChunk, lines) ==
  IF lines = <<>>
  THEN IF currentChunk # <<>> THEN processChunk(p, currentChunk) ELSE p
  ELSE LET chunk == currentChunk \o Head(lines) \o <<LF>>
       IN IF IsBoundaryLine(Head(lines))
          THEN ReplayLines(processChunk(p, chunk), <<>>, Tail(lines))
          ELSE ReplayLines(p, chunk, Tail(lines))

\* parseCompleteLog(logText): the parser it leaves, whose state it returns.
parseCompleteLog(logText) == ReplayLines(NewParser, <<>>, SplitLines(logText))

\* ------------------------------------------------------------ the log writer

\* One pair of an object with a one-word key.
P(key, v) == <<<<key>>, v>>

\* appendToolStreamLog(label, payload): the text it appends to the log.  The
\* lexeme "ts" is the ISO timestamp.
LogEntry(label, payload) ==
  <<LF, "[", "ts", "]", SP, label, ":", LF>> \o Stringify(payload, 0) \o <<LF>>

\* The events of the SDK stream, as the payloads of stream_event records.
TextDelta(text) ==
  Obj(<<P("type", W("content_block_delta")),
        P("delta", Obj(<<P("type", W("text_delta")), P("text", Str(text))>>))>>)

ThinkingDelta(text) ==
  Obj(<<P("type", W("content_block_delta")),
        P("delta", Obj(<<P("type", W("thinking_delta")), P("thinking", Str(text))>>))>>)

InputJsonDelta(partial) ==
  Obj(<<P("type", W("content_block_delta")),
        P("delta", Obj(<<P("type", W("input_json_delta")), P("partial_json", Str(partial))>>))>>)

ToolStart(id, name) ==
  Obj(<<P("type", W("content_block_start")),
        P("content_block", Obj(<<P("type", W("tool_use")), P("id", W(id)), P("name", W(name))>>))>>)

BlockStop == Obj(<<P("type", W("content_block_stop"))>>)

MessageStart(id, usage) ==
  Obj(<<P("type", W("message_start")),
        P("message", Obj(<<P("id", W(id)), P("usage", Obj(usage))>>))>>)

MessageDelta(usage) == Obj(<<P("type", W("message_delta")), P("usage", Obj(usage))>>)

MessageStop == Obj(<<P("type", W("message_stop"))>>)

SessionInit == Obj(<<P("session_id", W("s1")), P("model", W("m1"))>>)

\* ------------------------------------------------------- the state machine

\* A record of a log: an entry written by appendToolStreamLog (label and
\* payload), or text that some other writer put there (raw).
Entry(label, payload) == [label |-> label, payload |-> payload, raw |-> <<>>]

RawText(text) == [label |-> "", payload |-> Undef, raw |-> text]

RecordText(r) == IF r.label = "" THEN r.raw ELSE LogEntry(r.label, r.payload)

\* The records the logs of the chunked specification are made of.
LogLib ==
  << Entry("session_init", SessionInit),
     Entry("stream_event", TextDelta(<<"Hi", SP>>)),
     Entry("stream_event", TextDelta(<<"a", BSLASH, "n">>)),
     Entry("stream_event", TextDelta(<<"see", SP, "input_json_delta", ":">>)),
     Entry("stream_event", MessageStop),
     RawText(<<"null", LF>>) >>

\* The text of the log made of the records rs of library lib; chop leaves
\* out its final newline.
LogText(lib, rs, chop) ==
  LET t == Flatten([i \in 1..Len(rs) |-> RecordText(lib[rs[i]])])
  IN IF chop /\ t # <<>> THEN Front(t) ELSE t

RECURSIVE SeqsUpTo(_, _)
SeqsUpTo(S, n) ==
  IF n = 0 THEN {<<>>}
  ELSE LET shorter == SeqsUpTo(S, n - 1)
       IN shorter \cup {Append(q, x) : q \in shorter, x \in S}

\* The stream events of the event-level specification, by family: the life
\* of a tool, the usage counters, the three kinds of delta.
ToolLib ==
  << ToolStart("t1", "WebSearch"),
     InputJsonDelta(<<"{", QUOTE, "query", QUOTE, ":", QUOTE, "a">>),
     InputJsonDelta(<<QUOTE, "}">>),
     InputJsonDelta(<<"{", QUOTE, "query", QUOTE, ":", QUOTE, BSLASH, QUOTE>>),
     BlockStop >>

UsageLib ==
  << MessageStart("m1", <<P("input_tokens", Num(10)), P("output_tokens", Num(5)),
                          P("cache_read_input_tokens", Num(7))>>),
     MessageStart("m2", <<P("input_tokens", Num(10)), P("output_tokens", Num(0))>>),
     MessageDelta(<<P("output_tokens", Num(25))>>),
     MessageDelta(<<P("output_tokens", Num(0))>>) >>

DeltaLib ==
  << TextDelta(<<"Hi", SP>>),
     TextDelta(<<"there">>),
     ThinkingDelta(<<"hm">>),
     InputJsonDelta(<<"1">>) >>

Families == {"tool", "usage", "delta"}

\* The families of the third specification add: the pieces of a markdown
\* table as text deltas ("table": the whole table, the table cut inside its
\* data row, the rest of that row, an empty line);
\* the end of a stream ("stop"); values the handler knows no type of
\* ("unknown"); "throw", the events of a parser whose onTextUpdate
\* callback throws; a tool whose input names a query and a url ("keys"); and
\* a table with an empty cell in the middle of its data row ("cells").
EvLib(f) ==
  CASE f = "tool" -> ToolLib
    [] f = "usage" -> UsageLib
    [] f = "table" ->
         << TextDelta(<<"|", SP, "A", SP, "|", SP, "B", SP, "|", LF,
                        "|", "-", "-", "-", "|", "-", "-", "-", "|", LF,
                        "|", SP, "1", SP, "|", SP, "2", SP, "|", LF>>),
            TextDelta(<<"|", SP, "A", SP, "|", SP, "B", SP, "|", LF,
                        "|", "-", "-", "-", "|", "-", "-", "-", "|", LF,
                        "|", SP, "1", SP, "|">>),
            TextDelta(<<SP, "2", SP, "|", LF>>),
            TextDelta(<<LF>>) >>
    [] f = "stop" ->
         << MessageStop, TextDelta(<<"Hi", SP>>), ThinkingDelta(<<"hm">>) >>
    [] f = "unknown" ->
         << Obj(<<P("type", W("ping"))>>),
            Obj(<<P("index", Num(1))>>),
            Num(5),
            Null >>
    [] f = "throw" ->
         << TextDelta(<<"Hi", SP>>), ThinkingDelta(<<"hm">>), MessageStop >>
    [] f = "keys" ->
         << ToolStart("t1", "WebFetch"),
            InputJsonDelta(<<"{", QUOTE, "query", QUOTE, ":", QUOTE, "a", QUOTE, ",",
                             QUOTE, "url", QUOTE, ":", QUOTE, "u", QUOTE>>),
            InputJsonDelta(<<"}">>),
            BlockStop >>
    [] f = "cells" ->
         << TextDelta(<<"|", "A", "|", "B", "|", "C", "|", LF,
                        "|", "-", "|", "-", "|", "-", "|", LF,
                        "|", "1", "|", "|", "3", "|", LF>>),
            TextDelta(<<"Hi", SP>>) >>
    [] OTHER -> DeltaLib

VARIABLES
  parser,   \* the FrontendStreamParser
  family,   \* "log", or the family of events of the event-level specification
  recs,     \* the records of the log, or the events delivered so far (indices into the library)
  chop,     \* whether the log lacks its final newline
  pos       \* how many lexemes of the log have been passed to processChunk

vars == <<parser, family, recs, chop, pos>>

log == LogText(LogLib, recs, chop)

\* A fresh parser and a log to be delivered.
Init ==
  /\ parser = NewParser
  /\ family = "log"
  /\ recs \in SeqsUpTo(1..Len(LogLib), MaxRecords) \ {<<>>}
  /\ chop \in BOOLEAN
  /\ pos = 0

\* The transport delivers the next k lexemes of the log as one chunk.
Feed(k) ==
  /\ k >= 1
  /\ pos + k <= Len(log)
  /\ parser' = processChunk(parser, SubSeq(log, pos + 1, pos + k))
  /\ pos' = pos + k
  /\ UNCHANGED <<family, recs, chop>>

Next == \E k \in (1..MaxChunk) \cup {Len(log) - pos} : Feed(k)

Spec == Init /\ [][Next]_vars

\* The event-level specification: a fresh parser, to which the transport
\* delivers one stream_event record of the family after the other, each as
\* one chunk.
InitEv ==
  /\ parser = NewParser
  /\ family \in Families
  /\ recs = <<>>
  /\ chop = FALSE
  /\ pos = 0

Deliver(i) ==
  /\ Len(recs) < MaxEvents
  /\ parser' = processChunk(parser, LogEntry("stream_event", EvLib(family)[i]))
  /\ recs' = Append(recs, i)
  /\ UNCHANGED <<family, chop, pos>>

NextEv == \E i \in 1..Len(EvLib(family)) : Deliver(i)

SpecEv == InitEv /\ [][NextEv]_vars

\* The third specification: a parser, with a throwing onTextUpdate in the
\* family "throw", to which the transport delivers the records of its family
\* one by one and which the caller may reset or read at any time.  In recs a
\* reset is the index that follows the last index of the library, and the
\* reads, getState() and getFormattedOutput(), are the two indices after it.
InitLife ==
  /\ family \in {"table", "stop", "unknown", "throw", "keys", "cells"}
  /\ parser = [NewParser EXCEPT !.throwers = IF family = "throw" THEN {"onTextUpdate"} ELSE {}]
  /\ recs = <<>>
  /\ chop = FALSE
  /\ pos = 0

DeliverLife(i) ==
  /\ Len(recs) < MaxSteps
  /\ parser' = processChunk(parser, LogEntry("stream_event", EvLib(family)[i]))
  /\ recs' = Append(recs, i)
  /\ UNCHANGED <<family, chop, pos>>

Reset ==
  /\ Len(recs) < MaxSteps
  /\ parser' = reset(parser)
  /\ recs' = Append(recs, Len(EvLib(family)) + 1)
  /\ UNCHANGED <<family, chop, pos>>

GetState ==
  /\ Len(recs) < MaxSteps
  /\ parser' = getState(parser).p
  /\ recs' = Append(recs, Len(EvLib(family)) + 2)
  /\ UNCHANGED <<family, chop, pos>>

GetFormattedOutput ==
  /\ Len(recs) < MaxSteps
  /\ parser' = getFormattedOutput(parser).p
  /\ recs' = Append(recs, Len(EvLib(family)) + 3)
  /\ UNCHANGED <<family, chop, pos>>

NextLife ==
  \/ Reset
  \/ GetState
  \/ GetFormattedOutput
  \/ \E i \in 1..Len(EvLib(family)) : DeliverLife(i)

SpecLife == InitLife /\ [][NextLife]_vars

\* The pieces of the texts to unescape: a backslash, the characters that
\* follow it in an escape, and the hex digits of a backslash and of an n.
TextPieces ==
  { <<BSLASH>>, <<"n">>, <<QUOTE>>, <<"/">>,
    <<"u", "0", "0", "5", "c">>, <<"u", "0", "0", "6", "e">> }

\* The fourth specification: a fresh parser and a text of up to MaxText
\* pieces (in recs), which one text_delta event brings to unescapeText.
InitText ==
  /\ parser = NewParser
  /\ family = "text"
  /\ recs \in {Flatten(ps) : ps \in SeqsUpTo(TextPieces, MaxText)}
  /\ chop = FALSE
  /\ pos = 0

\* const text = this.unescapeText(event.delta.text), and what the block
\* does with it.
Unescape ==
  /\ pos = 0
  /\ parser' = handleEvent(parser, TextDelta(recs))
  /\ pos' = 1
  /\ UNCHANGED <<family, recs, chop>>

NextText == Unescape

SpecText == InitText /\ [][NextText]_vars

\* The text that the document holds in assistantStreaming once the stream is
\* over: a text delta and the end of the message.
StreamText == LogText(LogLib, <<2, 5>>, FALSE)

\* What a listener passes to processChunk of the rawStream of a snapshot,
\* <<>> when it passes nothing: the two components slice the text at their
\* cursor, lastProcessedLength, when the text is longer than the cursor;
\* src/unnamed/part_005 has no cursor and passes every text that is not empty.
NewChunk(site, rawStream, lastProcessedLength) ==
  IF site = "part_005" THEN rawStream
  ELSE IF Len(rawStream) > lastProcessedLength
       THEN SubSeq(rawStream, lastProcessedLength + 1, Len(rawStream))
       ELSE <<>>

\* The fifth specification: the snapshot listener of a component (family
\* names it) with its fresh parser and its cursor (pos) at 0.  recs holds,
\* of each snapshot received, the length of the text stored and the chunk
\* passed to processChunk.
InitSnap ==
  /\ parser = NewParser
  /\ family \in {"ICChipScanInterface", "FileAttachment", "part_005"}
  /\ recs = <<>>
  /\ chop = FALSE
  /\ pos = 0

\* The length of the text stored at the last snapshot.
StoredLength == IF recs = <<>> THEN 0 ELSE Last(recs).length

\* A snapshot of the document with the first n lexemes of the stream in
\* assistantStreaming.  The getState() that follows processChunk only reads.
Snapshot(n) ==
  /\ Len(recs) < MaxSnapshots
  /\ parser' = IF NewChunk(family, SubSeq(StreamText, 1, n), pos) = <<>> THEN parser
               ELSE processChunk(parser, NewChunk(family, SubSeq(StreamText, 1, n), pos))
  /\ pos' = IF family # "part_005" /\ n > pos THEN n ELSE pos
  /\ recs' = Append(recs, [length |-> n,
                           chunk |-> NewChunk(family, SubSeq(StreamText, 1, n), pos)])
  /\ UNCHANGED <<family, chop>>

\* The stored text only grows: by up to MaxChunk lexemes, or to its end; a
\* snapshot of an unchanged text comes with a change of another field.
NextSnap ==
  \E n \in (StoredLength..(StoredLength + MaxChunk)) \cup {Len(StreamText)} :
    n <= Len(StreamText) /\ Snapshot(n)

SpecSnap == InitSnap /\ [][NextSnap]_vars

\* ------------------------------------------------------------------ claims

\* C1: once the whole log has been fed chunk by chunk into a fresh parser,
\* its state equals, field by field, the state parseCompleteLog returns for
\* the same log.
C1_BatchEquivalence ==
  pos = Len(log) => StateView(parser) = StateView(parseCompleteLog(log))

\* C2: whatever the chunks, the parser that has received a text is the parser
\* that received the same text as one chunk: same state, same buffers, same
\* callback invocations.
C2_ChunkingIrrelevant ==
  parser = processChunk(NewParser, SubSeq(log, 1, pos))

\* C3: the input of an entry of toolUses, once it is not null, is never
\* changed by a later event.
C3_InputWriteOnce ==
  [][\A i \in 1..Len(parser.toolUses) :
        parser.toolUses[i].input # Null
          => parser'.toolUses[i].input = parser.toolUses[i].input]_vars

\* C4: an entry with a non-null input that a later tool_use start has
\* followed keeps its id, name and input through every later event, the
\* input_json_delta and content_block_stop events of the later tool included.
C4_EarlierToolUntouched ==
  [][\A i \in 1..(Len(parser.toolUses) - 1) :
        parser.toolUses[i].input # Null
          => parser'.toolUses[i] = parser.toolUses[i]]_vars

\* Two tools have been completed one after the other, with different inputs.
C4_Witness ==
  /\ family = "tool"
  /\ Len(parser.toolUses) = 2
  /\ parser.toolUses[1].input # Null
  /\ parser.toolUses[2].input # Null
  /\ parser.toolUses[1].input # parser.toolUses[2].input

\* C5: assistantText, thinking and fullToolCommand only grow: what each was
\* before a chunk is a prefix of what it is after the chunk.
C5_Monotonic ==
  [][/\ IsPrefix(parser.assistantText, parser'.assistantText)
     /\ IsPrefix(parser.thinking, parser'.thinking)
     /\ IsPrefix(parser.fullToolCommand, parser'.fullToolCommand)]_vars

\* Two different text deltas, a thinking delta and an input_json_delta have
\* been applied.
C5_Witness ==
  /\ family = "delta"
  /\ parser.assistantText = <<"Hi", SP, "there">>
  /\ parser.thinking # <<>>
  /\ parser.fullToolCommand # <<>>

\* C6: after a usage-bearing event, totalTokens is the sum of inputTokens
\* and outputTokens.
C6_TotalIsSum ==
  (family = "usage" /\ recs # <<>>) =>
     /\ parser.usage.totalTokens.t = "num"
     /\ parser.usage.totalTokens.n =
           parser.usage.inputTokens.n + parser.usage.outputTokens.n

\* A message_start has set both counters and a message_delta has replaced
\* outputTokens.
C6_Witness ==
  /\ family = "usage"
  /\ parser.usage.inputTokens = Num(10)
  /\ parser.usage.outputTokens = Num(25)
  /\ parser.usage.totalTokens = Num(35)

\* The usage object of a usage-bearing event.
UsageOf(event) ==
  IF Get(event, "type") = W("message_start")
  THEN Get(Get(event, "message"), "usage")
  ELSE Get(event, "usage")

\* What the rule of C7 asks of a counter: the incoming value when the usage
\* object carries the field, the previous value otherwise (a counter that
\* was never set counts as 0).
Carried(usage, field, previous) ==
  IF Get(usage, field) # Undef THEN Get(usage, field)
  ELSE IF previous = Undef THEN Num(0) ELSE previous

\* C7: after a usage-bearing event each of inputTokens, outputTokens and
\* cacheReadTokens holds the incoming value when the event carries the field,
\* 0 included, and its previous value when the event does not carry it.
C7_UsageRule ==
  [][family = "usage" =>
       /\ parser'.usage.inputTokens =
            Carried(UsageOf(UsageLib[Last(recs')]), "input_tokens", parser.usage.inputTokens)
       /\ parser'.usage.outputTokens =
            Carried(UsageOf(UsageLib[Last(recs')]), "output_tokens", parser.usage.outputTokens)
       /\ parser'.usage.cacheReadTokens =
            Carried(UsageOf(UsageLib[Last(recs')]), "cache_read_input_tokens",
                    parser.usage.cacheReadTokens)]_vars

\* The record of index i of LogLib is a stream_event that carries a text_delta.
IsTextRecord(i) ==
  /\ LogLib[i].label = "stream_event"
  /\ Get(Get(LogLib[i].payload, "delta"), "type") = W("text_delta")

\* The unescaped text of the record of index i.
TextOfRecord(i) == unescapeText(Get(Get(LogLib[i].payload, "delta"), "text"))

\* The unescaped texts of the text_delta records of the log, in order.
ExpectedTexts(rs) == [k \in 1..Len(rs) |-> TextOfRecord(rs[k])]

IsTextEvent(e) == e.type = "text"

\* The contents of the chronological entries es.
ContentsOf(es) == [k \in 1..Len(es) |-> es[k].content.s]

\* C8: once a log made of records written by appendToolStreamLog, the last
\* one terminated by its newline, has been fed in whatever chunks,
\* assistantText is the concatenation of the unescaped texts of its
\* text_delta records and the 'text' entries of chronologicalEvents are these
\* texts, one entry each, in order.
C8_TextAccumulation ==
  (/\ pos = Len(log)
   /\ ~chop
   /\ \A k \in 1..Len(recs) : LogLib[recs[k]].label # "") =>
     /\ parser.assistantText = Flatten(ExpectedTexts(SelectSeq(recs, IsTextRecord)))
     /\ ContentsOf(SelectSeq(parser.chronologicalEvents, IsTextEvent))
          = ExpectedTexts(SelectSeq(recs, IsTextRecord))

\* The event of index i of ToolLib is the tool start, a fragment, the stop.
IsStart(i) == Get(ToolLib[i], "type") = W("content_block_start")

IsFragment(i) == Get(ToolLib[i], "type") = W("content_block_delta")

IsStop(i) == Get(ToolLib[i], "type") = W("content_block_stop")

\* The position in rs of the last tool start, or 0.
LastStart(rs) ==
  IF \E k \in 1..Len(rs) : IsStart(rs[k])
  THEN CHOOSE k \in 1..Len(rs) : IsStart(rs[k]) /\ \A j \in (k + 1)..Len(rs) : ~IsStart(rs[j])
  ELSE 0

\* The partial_json fragments of the events rs, concatenated as delivered.
Fragments(rs) ==
  Flatten([k \in 1..Len(rs) |-> Get(Get(ToolLib[rs[k]], "delta"), "partial_json").s])

\* The fragments delivered since the last tool start.
ToolFragments(rs) == Fragments(SubSeq(rs, LastStart(rs) + 1, Len(rs)))

\* toolActivity holds a 'Starting N' line before an 'N completed' line.
StartedThenCompleted(activity, name) ==
  \E i, j \in 1..Len(activity) :
    /\ i < j
    /\ Includes(activity[i], <<"Starting", SP, name>>)
    /\ Includes(activity[j], <<name, SP, "completed">>)

\* C9: when content_block_stop follows a tool start and fragments that
\* concatenate to valid JSON, the tool is the one new entry of toolUses, with
\* its id, its name and the parsed JSON as input, and toolActivity holds a
\* 'Starting N' line before an 'N completed' line.
C9_ToolLifecycle ==
  [][(/\ family = "tool"
      /\ IsStop(Last(recs'))
      /\ LastStart(recs) > 0
      /\ LastStart(recs) < Len(recs)
      /\ \A k \in (LastStart(recs) + 1)..Len(recs) : IsFragment(recs[k])
      /\ JSONParse(ToolFragments(recs)).ok) =>
       /\ Len(parser'.toolUses) = Cardinality({k \in 1..Len(recs) : IsStart(recs[k])})
       /\ Last(parser'.toolUses) = [id |-> W("t1"), name |-> W("WebSearch"),
                                    input |-> JSONParse(ToolFragments(recs)).v]
       /\ StartedThenCompleted(parser'.toolActivity, "WebSearch")]_vars

\* C10: when content_block_stop finds an accumulated tool input that is no
\* valid JSON, the last entry of toolUses gets that very string as input,
\* onError is not invoked, and the tool_complete entry and the
\* onToolComplete callback are produced.
C10_MalformedInput ==
  [][(/\ family = "tool"
      /\ IsStop(Last(recs'))
      /\ parser.currentToolInput # <<>>
      /\ parser.toolUses # <<>>
      /\ ~JSONParse(parser.currentToolInput).ok) =>
       /\ Last(parser'.toolUses).input = Str(parser.currentToolInput)
       /\ \A k \in 1..Len(parser'.calls) : parser'.calls[k].cb # "onError"
       /\ parser'.chronologicalEvents =
            Append(parser.chronologicalEvents,
                   ChronoEvent("tool_complete", Undef, Len(parser.toolUses)))
       /\ parser'.calls =
            Append(parser.calls, [cb |-> "onToolComplete", a |-> Num(Len(parser.toolUses))])]_vars

\* A tool has been completed with an input that is no valid JSON, which is
\* stored as a string.
C10_Witness ==
  /\ family = "tool"
  /\ parser.toolUses # <<>>
  /\ Last(parser.toolUses).input = Str(<<"{", QUOTE, "query", QUOTE, ":", QUOTE, "a">>)
  /\ Last(parser.chronologicalEvents).type = "tool_complete"
  /\ Last(parser.calls).cb = "onToolComplete"

\* The last step was a reset.
WasReset(rs) == rs # <<>> /\ Last(rs) = Len(EvLib(family)) + 1

\* The text of the table block: '| A | B |', '|---|---|', '| 1 | 2 |', each
\* line with its newline.
TableText == Get(Get(EvLib("table")[1], "delta"), "text").s

\* C11: once the text deltas received have accumulated the table block, in
\* whatever pieces it came, tables holds exactly one entry, whose headers
\* are A and B and whose only row is 1 and 2.
C11_TableCaptured ==
  (family = "table" /\ parser.assistantText = TableText) =>
     /\ Len(parser.tables) = 1
     /\ parser.tables[1].headers = << <<"A">>, <<"B">> >>
     /\ parser.tables[1].rows = << << <<"1">>, <<"2">> >> >>

\* C12: over the events that are no reset, tables only grows at its end:
\* every entry it holds (headers, rows, rowCount, columnCount, rawText) stays
\* where it is and as it is, whatever text comes later.
C12_TablesFrozen ==
  [][~WasReset(recs') => IsPrefix(parser.tables, parser'.tables)]_vars

\* A table was captured from a text cut inside its data row, and the rest
\* of the row has arrived since: the entry still is what was captured.
C12_Witness ==
  /\ family = "table"
  /\ parser.assistantText = TableText
  /\ Len(parser.tables) = 1
  /\ parser.tables[1].rawText # TableText
  /\ parser.tables[1].rows = << << <<"1">> >> >>

\* C13: when tables already holds the entry of the complete table block,
\* a text delta that delivers the block once more adds no entry.
C13_TableIdempotent ==
  [][(/\ family = "table"
      /\ Last(recs') = 1
      /\ \E k \in 1..Len(parser.tables) : parser.tables[k].rawText = TableText) =>
       Len(parser'.tables) = Len(parser.tables)]_vars

\* The event of a step of the third specification is a message_stop.
IsMessageStop(i) ==
  /\ i \in 1..Len(EvLib(family))
  /\ Get(EvLib(family)[i], "type") = W("message_stop")

\* C14: over the events that are no reset, isComplete once true stays true,
\* it becomes true at a message_stop event only, and every message_stop
\* event leaves it true; so it goes from false to true once.
C14_CompleteOnce ==
  [][~WasReset(recs') =>
       /\ parser.isComplete => parser'.isComplete
       /\ (~parser.isComplete /\ parser'.isComplete) => IsMessageStop(Last(recs'))
       /\ IsMessageStop(Last(recs')) => parser'.isComplete]_vars

\* A message_stop was the first event, onComplete was invoked, and a second
\* message_stop and another event have been applied since, without a reset.
C14_Witness ==
  /\ family = "stop"
  /\ Len(recs) = MaxSteps
  /\ IsMessageStop(recs[1])
  /\ \E k \in 2..Len(recs) : IsMessageStop(recs[k])
  /\ \E k \in 2..Len(recs) : ~IsMessageStop(recs[k])
  /\ \A k \in 1..Len(recs) : recs[k] <= Len(EvLib(family))
  /\ parser.isComplete
  /\ parser.calls[1].cb = "onComplete"

\* The fields of the state that the consumer renders.
ViewModel(p) ==
  <<p.assistantText, p.thinking, p.toolUses, p.toolActivity, p.tables, p.usage,
    p.metadata, p.chronologicalEvents>>

\* C15: once isComplete is true, a processChunk call changes none of
\* assistantText, thinking, toolUses, toolActivity, tables, usage, metadata
\* and chronologicalEvents.
C15_Immutable ==
  [][(parser.isComplete /\ ~WasReset(recs')) => ViewModel(parser') = ViewModel(parser)]_vars

\* C16: a parser that is given nothing but events of no recognised kind (an
\* unknown type, an object without type, a number, null) keeps the state it
\* has and invokes no callback, onError included, at any processChunk call.
C16_UnknownIgnored ==
  [][(family = "unknown" /\ ~WasReset(recs')) =>
       /\ StateView(parser') = StateView(parser)
       /\ parser'.calls = parser.calls]_vars

\* The delta.type of the event of a step of the third specification.
DeltaType(i) ==
  IF i \in 1..Len(EvLib(family)) THEN Get(Get(EvLib(family)[i], "delta"), "type") ELSE Undef

\* The names of the callbacks invoked from the n-th invocation on.
CallsFrom(p, n) == [k \in 1..(Len(p.calls) - n) |-> p.calls[n + k].cb]

\* C17: with a registered onTextUpdate that throws, no processChunk call lets
\* an exception out; the call that applies a text delta appends the text,
\* invokes onTextUpdate and hands the exception to onError; and every call,
\* whatever exceptions came before it, applies its event as ever: a thinking
\* delta is appended and announced, a message_stop completes the stream.
C17_ErrorContained ==
  [][(family = "throw" /\ ~WasReset(recs')) =>
       /\ ~parser'.threw
       /\ DeltaType(Last(recs')) = W("text_delta") =>
            /\ parser'.assistantText = parser.assistantText \o <<"Hi", SP>>
            /\ CallsFrom(parser', Len(parser.calls)) = <<"onTextUpdate", "onError">>
       /\ DeltaType(Last(recs')) = W("thinking_delta") =>
            /\ parser'.thinking = parser.thinking \o <<"hm">>
            /\ CallsFrom(parser', Len(parser.calls)) = <<"onThinkingUpdate">>
       /\ IsMessageStop(Last(recs')) =>
            /\ parser'.isComplete
            /\ CallsFrom(parser', Len(parser.calls)) = <<"onComplete">>]_vars

\* onTextUpdate threw at the first call and at the third, onError got both
\* exceptions, and the thinking delta between them and the message_stop after
\* them were applied.
C17_Witness ==
  /\ family = "throw"
  /\ CallsFrom(parser, 0) = <<"onTextUpdate", "onError", "onThinkingUpdate",
                              "onTextUpdate", "onError", "onComplete">>
  /\ parser.assistantText = <<"Hi", SP, "Hi", SP>>
  /\ parser.thinking = <<"hm">>
  /\ parser.isComplete
  /\ ~parser.threw

\* What extractEvents gives at a step of the chunked specification.
Extracted == extractEvents([parser EXCEPT !.buffer = @ \o SubSeq(log, pos + 1, pos')])

\* What JSON.parse gives for the payloads of the records of the library.
Payloads ==
  {LogLib[i].payload : i \in {k \in 1..Len(LogLib) : LogLib[k].label # ""}} \cup {Null}

\* x, what extractEvents gave to a parser that had invoked calls: nothing
\* thrown, no callback invoked, whole payloads only.
BestEffort(x, calls) ==
  /\ ~x.p.threw
  /\ x.p.calls = calls
  /\ \A k \in 1..Len(x.events) : x.events[k] \in Payloads

\* C18: whatever the log and its chunks, the payloads that do not parse and
\* the records cut anywhere included, extractEvents throws nothing and
\* invokes no callback, and every event it emits is what JSON.parse gave for
\* an accumulator that parsed as a whole: the payload of a record of the
\* log, never a part of one nor a text that did not parse.
C18_BestEffort == [][\A x \in {Extracted} : BestEffort(x, parser.calls)]_vars

\* The log is a record whose accumulated payload does not parse (its text
\* line is skipped) followed by a text delta: the first was dropped at the
\* timestamp line of the second, the second was emitted, and onError was
\* never invoked.
C18_Witness ==
  /\ family = "log"
  /\ Len(recs) = 2
  /\ Get(Get(LogLib[recs[1]].payload, "delta"), "text") = Str(<<"see", SP, "input_json_delta", ":">>)
  /\ pos = Len(log)
  /\ ~chop
  /\ parser.jsonBuffer = <<>>
  /\ parser.assistantText = <<"Hi", SP>>
  /\ CallsFrom(parser, 0) = <<"onTextUpdate">>

\* The text received so far.
Received == SubSeq(log, 1, pos)

\* The part of s that follows its last newline.
AfterLastNewline(s) ==
  LET nl == {i \in 1..Len(s) : s[i] = LF}
  IN IF nl = {} THEN s
     ELSE SubSeq(s, (CHOOSE i \in nl : \A j \in nl : i >= j) + 1, Len(s))

\* C19: after every processChunk call the line buffer holds no newline and
\* is the part of the text received that follows its last newline, and the
\* accumulator is the one that the lines before that newline leave when
\* they are extracted in one go, each once and in order.
C19_LineBuffer ==
  /\ \A i \in 1..Len(parser.buffer) : parser.buffer[i] # LF
  /\ parser.buffer = AfterLastNewline(Received)
  /\ parser.jsonBuffer = extractEvents([NewParser EXCEPT !.buffer = Received]).p.jsonBuffer

\* The whole of a log without its final newline has been received: its last
\* line, the closing brace of the last record, is held back in the buffer,
\* and the record is still in the accumulator.
C19_Witness ==
  /\ family = "log"
  /\ chop
  /\ pos = Len(log)
  /\ parser.buffer = <<"}">>
  /\ parser.jsonBuffer # <<>>

\* C20: after a reset, whatever was processed before it, getState returns
\* what it returns on a parser just constructed.
C20_ResetIsFresh ==
  WasReset(recs) => StateView(parser) = StateView(NewParser)

\* C23: a field of metadata (sessionId, model, messageId) that holds a
\* non-empty value is left as it is by every later event.
C23_MetadataSetOnce ==
  [][\A f \in {"sessionId", "model", "messageId"} :
       Truthy(parser.metadata[f]) => parser'.metadata[f] = parser.metadata[f]]_vars

\* C25: when the fragments that a tool has received since its start
\* concatenate to a valid JSON document, content_block_stop stores the value
\* of that document as the input of the entry, and no string.
C25_ParsedUnlessInvalid ==
  [][(/\ family = "tool"
      /\ IsStop(Last(recs'))
      /\ LastStart(recs) > 0
      /\ LastStart(recs) < Len(recs)
      /\ \A k \in (LastStart(recs) + 1)..Len(recs) : IsFragment(recs[k])
      /\ JSONParse(ToolFragments(recs)).ok) =>
       /\ Last(parser'.toolUses).input.t # "str"
       /\ Last(parser'.toolUses).input = JSONParse(ToolFragments(recs)).v]_vars

\* C30: the first content_block_stop after a tool start, whatever fragments
\* came between them and none at all included, appends one tool_complete
\* entry for the tool started, appends its 'completed' line to toolActivity
\* and clears the tool-active flag.
C30_EveryToolCompleted ==
  [][(/\ family = "tool"
      /\ IsStop(Last(recs'))
      /\ LastStart(recs) > 0
      /\ \A k \in (LastStart(recs) + 1)..Len(recs) : ~IsStop(recs[k])) =>
       /\ parser'.chronologicalEvents =
            Append(parser.chronologicalEvents,
                   ChronoEvent("tool_complete", Undef, Len(parser.toolUses)))
       /\ parser'.toolActivity =
            Append(parser.toolActivity, <<"check", SP, "WebSearch", SP, "completed", LF>>)
       /\ ~parser'.isToolActive]_vars

\* The log holds a record of payload e.
InLog(e) == \E k \in 1..Len(recs) : LogLib[recs[k]].payload = e

\* C28: once a log that ends with a newline has been received whole, every
\* event extracted from it has been applied, whatever happened to the other
\* events of its chunk: the session of a session_init record is in
\* metadata, the text of a text delta is in assistantText, and a
\* message_stop has completed the stream.
C28_NoEventLost ==
  (pos = Len(log) /\ ~chop) =>
     /\ InLog(SessionInit) => parser.metadata.sessionId = Get(SessionInit, "session_id")
     /\ InLog(TextDelta(<<"Hi", SP>>)) => Includes(parser.assistantText, <<"Hi", SP>>)
     /\ InLog(MessageStop) => parser.isComplete

\* C29: once a log made of stream_event records, the last one ended by its
\* newline, has been received whole, each record has been emitted as one
\* event, whatever its strings hold: the callbacks invoked are, in order,
\* one onTextUpdate for each text delta and one onComplete for each
\* message_stop.
C29_Framing ==
  (/\ pos = Len(log)
   /\ ~chop
   /\ \A k \in 1..Len(recs) : LogLib[recs[k]].label = "stream_event") =>
     CallsFrom(parser, 0) =
       [k \in 1..Len(recs) |->
          IF LogLib[recs[k]].payload = MessageStop THEN "onComplete" ELSE "onTextUpdate"]
\* The last step was a read: getState() or getFormattedOutput().
WasRead(rs) == rs # <<>> /\ Last(rs) > Len(EvLib(family)) + 1

\* The stats of a parser, computed from its fields.
StatsOf(p) ==
  [textLength |-> Len(p.assistantText), thinkingLength |-> Len(p.thinking),
   toolCount |-> Len(p.toolUses), commandParts |-> Len(p.toolCommands),
   totalEvents |-> Len(p.chronologicalEvents)]

\* C21: getState() and getFormattedOutput() leave every field and every
\* buffer of the parser as they were, and the stats getState() reports are
\* the lengths of the fields at the time of the call.
C21_ReadOnly ==
  [][WasRead(recs') =>
       /\ parser' = parser
       /\ \A f \in DOMAIN StatsOf(parser) :
            getState(parser).result.stats[f] = StatsOf(parser')[f]]_vars

\* A getState() that followed a text, a thinking text, a tool with its
\* fragments, or a table.
C21_Witness ==
  /\ WasRead(recs)
  /\ Last(recs) = Len(EvLib(family)) + 2
  /\ Len(recs) > 1
  /\ getState(parser).result.stats.totalEvents > 0

\* The lines of toolActivity from its last 'Starting' line on.
SinceStart(activity) ==
  LET starts == {k \in 1..Len(activity) : Includes(activity[k], <<"Starting">>)}
  IN IF starts = {} THEN activity
     ELSE SubSeq(activity, CHOOSE k \in starts : \A j \in starts : j <= k, Len(activity))

\* C24: the lines that toolActivity holds of one tool, from the line of its
\* start on, name the query at most once, the url at most once and the
\* prompt at most once.
C24_NarratedOncePerKey ==
  \A key \in {"Query", "URL", "Prompt"} :
    Cardinality({k \in 1..Len(SinceStart(parser.toolActivity)) :
                   Includes(SinceStart(parser.toolActivity)[k], <<key, ":">>)}) <= 1

\* The text of the table with an empty cell: '|A|B|C|', '|-|-|-|', '|1||3|'.
CellsText == Get(Get(EvLib("cells")[1], "delta"), "text").s

\* C26: of the table whose data row has an empty cell between two others,
\* the row keeps its three cells, the empty one in its column, under the
\* three headers; columnCount is the number of headers and rowCount the
\* number of rows.
C26_EmptyCellKept ==
  (family = "cells" /\ parser.assistantText = CellsText) =>
     /\ Len(parser.tables) = 1
     /\ parser.tables[1].headers = << <<"A">>, <<"B">>, <<"C">> >>
     /\ parser.tables[1].columnCount = 3
     /\ parser.tables[1].rowCount = 1
     /\ parser.tables[1].rows = << << <<"1">>, <<>>, <<"3">> >> >>

\* The escapes of unescapeText at the head of a text: what each stands for
\* and how many characters it takes; 0 for no escape there.
EscapeAt(s) ==
  IF Len(s) < 2 \/ s[1] # BSLASH THEN [n |-> 0, c |-> <<>>]
  ELSE CASE s[2] = "n" -> [n |-> 2, c |-> <<LF>>]
         [] s[2] = QUOTE -> [n |-> 2, c |-> <<QUOTE>>]
         [] s[2] = "t" -> [n |-> 2, c |-> <<TAB>>]
         [] s[2] = "r" -> [n |-> 2, c |-> <<CR>>]
         [] s[2] = "/" -> [n |-> 2, c |-> <<"/">>]
         [] s[2] = BSLASH -> [n |-> 2, c |-> <<BSLASH>>]
         [] s[2] = "u" /\ Len(s) >= 6 /\ (\A k \in 3..6 : s[k] \in HexDigits) ->
              [n |-> 6, c |-> <<CodeChar(SubSeq(s, 3, 6))>>]
         [] OTHER -> [n |-> 0, c |-> <<>>]

\* One decoding pass from left to right: an escape is replaced by what it
\* stands for and the pass goes on after it; any other character is kept.
RECURSIVE DecodeOnce(_)
DecodeOnce(s) ==
  IF s = <<>> THEN <<>>
  ELSE IF EscapeAt(s).n = 0 THEN <<Head(s)>> \o DecodeOnce(Tail(s))
       ELSE EscapeAt(s).c \o DecodeOnce(SubSeq(s, EscapeAt(s).n + 1, Len(s)))

\* C22: the text that a text_delta appends, unescaped by unescapeText, is the
\* text that one decoding pass from left to right gives.
C22_SinglePass ==
  (family = "text" /\ pos = 1) => parser.assistantText = DecodeOnce(recs)

\* The chunks passed to processChunk so far, one after the other.
Passed == Flatten([k \in 1..Len(recs) |-> recs[k].chunk])

\* C27: after every snapshot, the chunks that the listener has passed to
\* processChunk are, one after the other, the text stored at that snapshot.
C27_OnlyNewText ==
  (family \in {"ICChipScanInterface", "FileAttachment", "part_005"} /\ recs # <<>>) =>
     Passed = SubSeq(StreamText, 1, StoredLength)

====
